---- MODULE Spec2Model ----
(***************************************************************************)
(* RDAP client: the bootstrap registry model (Values, Service,             *)
(* ServiceRegistry), the query of Client (bootstrap fetch, match, sort,    *)
(* candidate loop) and the single fetch fetchAndUnmarshal.                 *)
(*                                                                         *)
(* Strings that the code splits are kept split: a URL is the sequence of   *)
(* its ":"-separated parts (strings.Split(u, ":")), a domain name or a     *)
(* registry entry is the sequence of its "."-separated labels.             *)
(***************************************************************************)
EXTENDS Integers, Sequences, FiniteSets, TLC

\* Longest URL list of a service.
MaxUrls == 3
\* Most services of a registry.
MaxServices == 2
\* Most entries of one service.
MaxEntries == 2
\* Width of an address, in bits.
AddrBits == 3
\* Longest input of Handler.Query, in characters.
MaxInput == 4

VARIABLES
    Host,        \* Client.Host: the server override, the empty string when none
    Bootstrap,   \* Client.Bootstrap: the template of the bootstrap URL
    kind,        \* query(kind, ...)
    identifier,  \* query(..., identifier, ...)
    pc,          \* position in the operation
    boot,        \* what the bootstrap fetch of this query did
    doc,         \* a bootstrap document as served, before it is decoded
    r,           \* the decoded bootstrap.ServiceRegistry
    matched,     \* the URL list as the matcher (or the override) gave it
    uris,        \* uris after sort.Sort(bootstrap.Values(uris))
    idx,         \* position of the candidate loop in uris
    requests,    \* the HTTP requests sent, in order
    last,        \* the latest candidate attempt
    err,         \* the error query returned
    object,      \* the caller's object, filled by a successful decode
    hq           \* a run of Handler.Query

vars == <<Host, Bootstrap, kind, identifier, pc, boot, doc, r, matched, uris,
          idx, requests, last, err, object, hq>>

----------------------------------------------------------------------------
(* URLs *)

HttpsA == <<"https", "//a.example">>
HttpsB == <<"https", "//b.example">>
HttpC == <<"http", "//c.example">>
\* "abc%": no request can be built from it
BadURL == <<"abc%">>
\* the empty string
NoHost == <<"">>

RDAPBootstrap == <<"https", "//data.iana.org/rdap/%s.json">>
BadBootstrap == <<"%sabc%">>

UrlUniverse == {HttpsA, HttpsB, HttpC, BadURL}

Injective(s) == \A i, j \in 1..Len(s) : s[i] = s[j] => i = j

ListsUpTo(S, n) == {s \in UNION {[1..k -> S] : k \in 0..n} : Injective(s)}

UrlLists == ListsUpTo(UrlUniverse, MaxUrls)

----------------------------------------------------------------------------
(* bootstrap.Values and its sort *)

\* strings.Split(u, ":")[0]
SchemeOf(u) == u[1]

\* Values.Less: the answer does not depend on j
Less(v, i, j) == SchemeOf(v[i]) = "https"

\* Values.Swap
Swap(v, i, j) == [v EXCEPT ![i] = v[j], ![j] = v[i]]

\* sort.Sort on a slice this short is the library's insertion sort:
\*   for i := a + 1; i < b; i++ {
\*       for j := i; j > a && data.Less(j, j-1); j-- { data.Swap(j, j-1) } }
\* (indices here are 1-based).
RECURSIVE InsertionInner(_, _)
InsertionInner(v, j) ==
    IF j > 1 /\ Less(v, j, j - 1)
    THEN InsertionInner(Swap(v, j, j - 1), j - 1)
    ELSE v

RECURSIVE InsertionSort(_, _)
InsertionSort(v, i) ==
    IF i > Len(v) THEN v ELSE InsertionSort(InsertionInner(v, i), i + 1)

SortValues(v) == InsertionSort(v, 2)

----------------------------------------------------------------------------
(* ServiceRegistry *)

\* Service.Entries, Service.URIs: a Service is [2]Values
Entries(s) == s[1]
URIs(s) == s[2]

\* Service.UnmarshalJSON: decode the pair, sort the URIs
UnmarshalService(sv) == <<sv[1], SortValues(sv[2])>>

\* decoding a ServiceRegistry decodes each of its services
UnmarshalRegistry(d) ==
    [version |-> d.version,
     services |-> [i \in 1..Len(d.services) |-> UnmarshalService(d.services[i])]]

\* the zero value of ServiceRegistry (what decoding a JSON object without the
\* registry's keys leaves)
EmptyRegistry == [version |-> "", services |-> <<>>]

----------------------------------------------------------------------------
(* errors *)

Error(k, about, code) == [kind |-> k, about |-> about, code |-> code]

Nil == Error("nil", <<>>, 0)
\* query has not returned yet
Pending == Error("pending", <<>>, 0)
\* http.NewRequest: the URL does not parse
ParseErr(u) == Error("parse", u.base \o u.path, 0)
\* cli.Do: the exchange failed
TransportErr == Error("transport", <<>>, 0)
\* json.Decoder.Decode: the body is not JSON
DecodeErr == Error("decode", <<>>, 0)
NoMatchesAsNoData(id) == Error("no data available for", id, 0)

\* fmt.Errorf("no matches for %v", identifier)
NoMatchesErr(id) == Error("no matches for", id, 0)
\* fmt.Errorf("no data available for %v", identifier)
NoDataErr(id) == Error("no data available for", id, 0)

----------------------------------------------------------------------------
(* the matcher *)

LowerLabel(l) ==
    CASE l = "COM" -> "com"
      [] l = "UK" -> "uk"
      [] l = "CO" -> "co"
      [] l = "EXAMPLE" -> "example"
      [] OTHER -> l

\* strings.ToLower of a name, label by label
Lower(name) == [i \in 1..Len(name) |-> LowerLabel(name[i])]

\* the labels of e are the last Len(e) labels of q
IsSuffix(e, q) ==
    /\ Len(e) <= Len(q)
    /\ \A k \in 1..Len(e) : e[k] = q[Len(q) - Len(e) + k]

ConsiderLast(best, e, q, svc) ==
    IF IsSuffix(e, q) /\ Len(e) >= best.size /\ Len(e) > 0
    THEN [size |-> Len(e), uris |-> URIs(svc)]
    ELSE best

\* one entry against the best match so far: a longer suffix replaces it
Consider(best, e, q, svc) ==
    IF IsSuffix(e, q) /\ Len(e) > best.size
    THEN [size |-> Len(e), uris |-> URIs(svc)]
    ELSE best

RECURSIVE MatchEntries(_, _, _, _)
MatchEntries(best, q, svc, j) ==
    IF j > Len(Entries(svc))
    THEN best
    ELSE MatchEntries(Consider(best, Entries(svc)[j], q, svc), q, svc, j + 1)

RECURSIVE MatchServices(_, _, _, _)
MatchServices(best, q, services, i) ==
    IF i > Len(services)
    THEN best
    ELSE MatchServices(MatchEntries(best, q, services[i], 1), q, services, i + 1)

\* ServiceRegistry.MatchDomain: the URIs of the service with the longest
\* entry that is a suffix of the name, services and entries in document order
MatchDomain(reg, fqdn) ==
    LET best == MatchServices([size |-> 0, uris |-> <<>>], Lower(fqdn), reg.services, 1)
    IN  IF best.size = 0
        THEN [uris |-> <<>>, err |-> NoMatchesErr(fqdn)]
        ELSE [uris |-> best.uris, err |-> Nil]

\* Addresses are AddrBits wide; a network is its first address and the
\* length of its prefix, as net.IPNet holds them.
RECURSIVE Pow2(_)
Pow2(n) == IF n = 0 THEN 1 ELSE 2 * Pow2(n - 1)

\* ip.Mask(mask): the address with all but its first bits bits cleared
MaskIP(ip, bits) == (ip \div Pow2(AddrBits - bits)) * Pow2(AddrBits - bits)

\* net.ParseCIDR of an entry gives the masked network
Network(ip, bits) == [ip |-> MaskIP(ip, bits), bits |-> bits]

\* the network n lies in the block c: c's prefix is no longer than n's and is
\* a prefix of n
ContainsNet(c, n) == c.bits <= n.bits /\ MaskIP(n.ip, c.bits) = c.ip

ConsiderNetFirst(best, c, n, svc) ==
    IF ContainsNet(c, n) /\ best.size < 0
    THEN [size |-> c.bits, uris |-> URIs(svc)]
    ELSE best

\* one block against the best so far: a longer containing prefix replaces it
ConsiderNet(best, c, n, svc) ==
    IF ContainsNet(c, n) /\ c.bits > best.size
    THEN [size |-> c.bits, uris |-> URIs(svc)]
    ELSE best

RECURSIVE MatchBlocks(_, _, _, _)
MatchBlocks(best, n, svc, j) ==
    IF j > Len(Entries(svc))
    THEN best
    ELSE MatchBlocks(ConsiderNet(best, Entries(svc)[j], n, svc), n, svc, j + 1)

RECURSIVE MatchNetServices(_, _, _, _)
MatchNetServices(best, n, services, i) ==
    IF i > Len(services)
    THEN best
    ELSE MatchNetServices(MatchBlocks(best, n, services[i], 1), n, services, i + 1)

\* ServiceRegistry.MatchIPNetwork: the URIs of the service with the most
\* specific block that contains the network
MatchIPNetwork(reg, n) ==
    LET best == MatchNetServices([size |-> -1, uris |-> <<>>], n, reg.services, 1)
    IN  IF best.size < 0
        THEN [uris |-> <<>>, err |-> NoMatchesErr(n)]
        ELSE [uris |-> best.uris, err |-> Nil]

\* the switch on kind in query
Match(reg, k, id) ==
    CASE k = "dns" -> MatchDomain(reg, id)
      [] k \in {"ipv4", "ipv6"} -> MatchIPNetwork(reg, id)
      [] OTHER -> [uris |-> <<>>, err |-> Nil]

----------------------------------------------------------------------------
(* one fetch *)

kindToSegment ==
    [k \in {"dns", "asn", "ipv4", "ipv6"} |->
        CASE k = "dns" -> "domain"
          [] k = "asn" -> "autnum"
          [] OTHER -> "ip"]

\* fmt.Sprintf(c.Bootstrap, kind)
BootstrapURI(template, k) == [base |-> template, path |-> <<k>>]

\* fmt.Sprintf("%s/%s/%v", uri, segment, identifier)
QueryURI(uri, k, id) == [base |-> uri, path |-> <<kindToSegment[k]>> \o id]

\* http.NewRequest fails on a URL with a broken escape
NewRequestFails(u) == u.base \in {BadURL, BadBootstrap}

\* a response: io is a failed exchange; body.json tells whether the body is
\* JSON, body.value what it holds
IOFailure(v) == [io |-> TRUE, status |-> 0, rdap |-> FALSE,
                 body |-> [json |-> FALSE, value |-> v]]

Response(st, ct, js, v) == [io |-> FALSE, status |-> st, rdap |-> ct,
                            body |-> [json |-> js, value |-> v]]

\* Client.fetchAndUnmarshal: build the request, send it, decode the body.
\* sent tells whether a request left; value is what the object was filled with.
fetchAndUnmarshal(u, resp) ==
    IF NewRequestFails(u)
    THEN [sent |-> FALSE, err |-> ParseErr(u)]
    ELSE IF resp.io
    THEN [sent |-> TRUE, err |-> TransportErr]
    ELSE IF ~resp.body.json
    THEN [sent |-> TRUE, err |-> DecodeErr]
    ELSE [sent |-> TRUE, err |-> Nil]

----------------------------------------------------------------------------
(* what the servers may answer *)

Com == <<"com">>
Uk == <<"uk">>
CoUk == <<"co", "uk">>

\* a bootstrap document: version and services, each <<entries, urls>> as served
Document(v, svcs) == [version |-> v, services |-> svcs]

\* a JSON object that is no registry (an RDAP error object, say)
EmptyDocument == Document("", <<>>)

SupportedVersion == "1.0"

QueryServices == {<<e, u>> : e \in {<<Com>>}, u \in UrlLists}

OtherService == <<<<Uk>>, <<HttpC>>>>

\* the documents the bootstrap server serves to a query
QueryDocuments ==
    {EmptyDocument} \cup
    {Document(v, svcs) :
        v \in {SupportedVersion, "1.0x"},
        svcs \in {<<s>> : s \in QueryServices}
                 \cup {<<s, OtherService>> : s \in QueryServices}
                 \cup {<<OtherService, s>> : s \in QueryServices}}

BootstrapResponses ==
    {IOFailure(EmptyDocument)} \cup
    {Response(st, ct, FALSE, EmptyDocument) : st \in {200, 500}, ct \in BOOLEAN} \cup
    {Response(st, ct, TRUE, d) : st \in {200, 500}, ct \in BOOLEAN, d \in QueryDocuments}

\* a candidate's body: the object asked for, an RDAP error object, or no JSON
CandidateResponses ==
    {IOFailure("")} \cup
    {Response(st, ct, FALSE, "{{{") : st \in {200, 400, 404}, ct \in BOOLEAN} \cup
    {Response(st, ct, TRUE, v) :
        st \in {200, 400, 404}, ct \in BOOLEAN, v \in {"object", "error"}}

QueryDomains == {<<"example", "com">>, <<"example", "org">>}

----------------------------------------------------------------------------
(* the classifiers of Handler: an input is the sequence of its characters *)

Alphabet == {"1", "x", ".", ":", "/"}

Inputs == UNION {[1..n -> Alphabet] : n \in 0..MaxInput}

IsDigit(c) == c = "1"
IsHexDigit(c) == c = "1"
IsAlnum(c) == c \in {"1", "x"}

AllDigits(s) == \A k \in 1..Len(s) : IsDigit(s[k])

\* the value of a string of digits
RECURSIVE Decimal(_)
Decimal(s) == IF s = <<>> THEN 0 ELSE 10 * Decimal(SubSeq(s, 1, Len(s) - 1)) + 1

\* the position of the first c in s, 0 when there is none
RECURSIVE IndexOf(_, _, _)
IndexOf(s, c, k) ==
    IF k > Len(s) THEN 0 ELSE IF s[k] = c THEN k ELSE IndexOf(s, c, k + 1)

\* the pieces of s between the occurrences of c
RECURSIVE SplitOn(_, _)
SplitOn(s, c) ==
    LET i == IndexOf(s, c, 1)
    IN  IF i = 0
        THEN <<s>>
        ELSE <<SubSeq(s, 1, i - 1)>> \o SplitOn(SubSeq(s, i + 1, Len(s)), c)

\* strconv.ParseUint(object, 10, 32): digits only, at least one; a number of
\* so few digits fits 32 bits
ParseUint(s) == Len(s) > 0 /\ AllDigits(s)

\* four decimal fields of at most three digits, none above 255
ParseIPv4(s) ==
    LET f == SplitOn(s, ".")
    IN  /\ Len(f) = 4
        /\ \A k \in 1..4 :
              Len(f[k]) \in 1..3 /\ AllDigits(f[k]) /\ Decimal(f[k]) <= 255

\* the number of hex digits s starts with
RECURSIVE HexPrefix(_, _)
HexPrefix(s, k) ==
    IF k > Len(s) \/ ~IsHexDigit(s[k]) THEN k - 1 ELSE HexPrefix(s, k + 1)

\* the loop of the IPv6 parser: groups of at most four hex digits, a ":"
\* between two groups, "::" at most once, eight groups unless "::" was seen,
\* a dotted IPv4 tail in the place of the last two groups
RECURSIVE V6Groups(_, _, _)
V6Groups(s, groups, ellipsis) ==
    IF groups >= 8
    THEN s = <<>>
    ELSE
        LET n == HexPrefix(s, 1)
            after == SubSeq(s, n + 1, Len(s))
        IN  IF n = 0 \/ n > 4 THEN FALSE
            ELSE IF after = <<>> THEN groups + 1 = 8 \/ ellipsis
            ELSE IF after[1] = "."
            THEN /\ ellipsis \/ groups = 6
                 /\ groups + 2 <= 8
                 /\ ParseIPv4(s)
            ELSE IF after[1] # ":" \/ Len(after) = 1 THEN FALSE
            ELSE IF after[2] = ":"
            THEN IF ellipsis THEN FALSE
                 ELSE IF Len(after) = 2 THEN TRUE
                 ELSE V6Groups(SubSeq(after, 3, Len(after)), groups + 1, TRUE)
            ELSE V6Groups(Tail(after), groups + 1, ellipsis)

ParseIPv6(s) ==
    IF Len(s) >= 2 /\ s[1] = ":" /\ s[2] = ":"
    THEN IF Len(s) = 2 THEN TRUE ELSE V6Groups(SubSeq(s, 3, Len(s)), 0, TRUE)
    ELSE V6Groups(s, 0, FALSE)

\* net.ParseIP(object) != nil
ParseIP(s) == ParseIPv4(s) \/ ParseIPv6(s)

\* net.ParseCIDR(object): an address, "/", and a prefix length in decimal
\* that the address family allows
ParseCIDR(s) ==
    LET i == IndexOf(s, "/", 1)
        addr == SubSeq(s, 1, i - 1)
        mask == SubSeq(s, i + 1, Len(s))
    IN  /\ i > 0
        /\ Len(mask) > 0
        /\ AllDigits(mask)
        /\ IF ParseIPv4(addr)
           THEN Decimal(mask) <= 32
           ELSE ParseIPv6(addr) /\ Decimal(mask) <= 128

\* isFQDN.MatchString(object): labels of letters and digits with a "." between
\* two of them, an optional "." at the end; the empty string matches
IsFQDN(s) ==
    LET t == IF Len(s) > 0 /\ s[Len(s)] = "." THEN SubSeq(s, 1, Len(s) - 1) ELSE s
        labels == SplitOn(t, ".")
    IN  \/ t = <<>>
        \/ \A k \in 1..Len(labels) :
              /\ Len(labels[k]) \in 1..63
              /\ \A m \in 1..Len(labels[k]) : IsAlnum(labels[k][m])

NoQuery ==
    [object |-> <<>>, bootstrap |-> FALSE, i |-> 0, invoked |-> <<>>,
     passed |-> {}, calls |-> <<>>, wrote |-> FALSE, ok |-> FALSE, err |-> "nil"]

----------------------------------------------------------------------------
(* Client.query *)

NoBoot ==
    [tried |-> FALSE, sent |-> FALSE, io |-> FALSE, status |-> 0, rdap |-> FALSE,
     json |-> FALSE, version |-> "", matcherRan |-> FALSE, err |-> Nil]

NoAttempt ==
    [tried |-> FALSE, uri |-> NoHost, sent |-> FALSE, resp |-> IOFailure(""),
     err |-> Nil]

NoObject == [from |-> NoHost, value |-> ""]

Init ==
    /\ Host \in {NoHost, HttpsA, HttpC, BadURL}
    /\ Bootstrap \in {RDAPBootstrap, BadBootstrap}
    /\ kind = "dns"
    /\ identifier \in QueryDomains
    /\ pc = "start"
    /\ boot = NoBoot
    /\ doc = EmptyDocument
    /\ r = EmptyRegistry
    /\ matched = <<>>
    /\ uris = <<>>
    /\ idx = 0
    /\ requests = <<>>
    /\ last = NoAttempt
    /\ err = Pending
    /\ object = NoObject
    /\ hq = NoQuery

UsesBootstrapAlways(h) == TRUE

\* c.Host == ""
UsesBootstrap(h) == h = NoHost

\* query without an override: fetch the bootstrap document, match, check that
\* there are URIs, sort them
QueryBootstrap ==
    /\ pc = "start"
    /\ UsesBootstrap(Host)
    /\ \E resp \in BootstrapResponses :
        LET u == BootstrapURI(Bootstrap, kind)
            f == fetchAndUnmarshal(u, resp)
            reg == IF f.err = Nil
                   THEN UnmarshalRegistry(resp.body.value)
                   ELSE EmptyRegistry
            m == Match(reg, kind, identifier)
            e == IF f.err # Nil THEN f.err
                 ELSE IF m.err # Nil THEN m.err
                 ELSE IF Len(m.uris) = 0 THEN NoMatchesErr(identifier)
                 ELSE Nil
        IN  /\ requests' = IF f.sent THEN Append(requests, u) ELSE requests
            /\ boot' = [tried |-> TRUE, sent |-> f.sent,
                        io |-> f.sent /\ resp.io,
                        status |-> IF f.sent THEN resp.status ELSE 0,
                        rdap |-> f.sent /\ resp.rdap,
                        json |-> f.sent /\ resp.body.json,
                        version |-> reg.version,
                        matcherRan |-> f.err = Nil,
                        err |-> f.err]
            /\ IF e # Nil
               THEN /\ pc' = "done"
                    /\ err' = e
                    /\ UNCHANGED <<matched, uris, idx>>
               ELSE /\ pc' = "loop"
                    /\ matched' = m.uris
                    /\ uris' = SortValues(m.uris)
                    /\ idx' = 1
                    /\ UNCHANGED err
    /\ UNCHANGED <<hq, Host, Bootstrap, kind, identifier, doc, r, last, object>>

\* query with an override: the override is the list
QueryOverride ==
    /\ pc = "start"
    /\ ~UsesBootstrap(Host)
    /\ matched' = <<Host>>
    /\ uris' = SortValues(<<Host>>)
    /\ idx' = 1
    /\ pc' = "loop"
    /\ UNCHANGED <<hq, Host, Bootstrap, kind, identifier, boot, doc, r, requests,
                   last, err, object>>

\* one turn of the loop over uris, and the return after the last one
Attempt ==
    /\ pc = "loop"
    /\ \E resp \in CandidateResponses :
        LET uri == uris[idx]
            u == QueryURI(uri, kind, identifier)
            f == fetchAndUnmarshal(u, resp)
        IN  /\ requests' = IF f.sent THEN Append(requests, u) ELSE requests
            /\ last' = [tried |-> TRUE, uri |-> uri, sent |-> f.sent,
                        resp |-> IF f.sent THEN resp ELSE IOFailure(""),
                        err |-> f.err]
            /\ IF f.err = Nil
               THEN /\ pc' = "done"
                    /\ err' = Nil
                    /\ object' = [from |-> uri, value |-> resp.body.value]
                    /\ UNCHANGED idx
               ELSE IF idx < Len(uris)
               THEN /\ idx' = idx + 1
                    /\ UNCHANGED <<pc, err, object>>
               ELSE /\ pc' = "done"
                    /\ err' = NoDataErr(identifier)
                    /\ UNCHANGED <<idx, object>>
    /\ UNCHANGED <<hq, Host, Bootstrap, kind, identifier, boot, doc, r, matched, uris>>

Next == QueryBootstrap \/ QueryOverride \/ Attempt

Spec == Init /\ [][Next]_vars

----------------------------------------------------------------------------
(* loading a registry and sorting a matched list, on their own *)

SortDocuments ==
    {Document(SupportedVersion, [i \in 1..Len(us) |-> <<<<Com>>, us[i]>>]) :
        us \in UNION {[1..n -> UrlLists] : n \in 1..MaxServices}}

SortInit ==
    /\ Host = NoHost
    /\ Bootstrap = RDAPBootstrap
    /\ kind = "dns"
    /\ identifier = <<"example", "com">>
    /\ pc = "start"
    /\ boot = NoBoot
    /\ doc \in SortDocuments
    /\ r = EmptyRegistry
    /\ matched = <<>>
    /\ uris = <<>>
    /\ idx = 0
    /\ requests = <<>>
    /\ last = NoAttempt
    /\ err = Pending
    /\ object = NoObject
    /\ hq = NoQuery

\* json.Unmarshal of the document into a ServiceRegistry
Load ==
    /\ pc = "start"
    /\ r' = UnmarshalRegistry(doc)
    /\ pc' = "loaded"
    /\ UNCHANGED <<hq, Host, Bootstrap, kind, identifier, boot, doc, matched, uris,
                   idx, requests, last, err, object>>

\* query sorts the list the matcher took from the loaded registry
SortMatched ==
    /\ pc = "loaded"
    /\ \E i \in 1..Len(r.services) :
        /\ matched' = URIs(r.services[i])
        /\ uris' = SortValues(URIs(r.services[i]))
    /\ pc' = "sorted"
    /\ UNCHANGED <<hq, Host, Bootstrap, kind, identifier, boot, doc, r, idx,
                   requests, last, err, object>>

SortNext == Load \/ SortMatched

SortSpec == SortInit /\ [][SortNext]_vars

----------------------------------------------------------------------------
(* the matcher on its own *)

\* the URIs of the i-th service: a different list for each position
ServiceURLs(i) ==
    CASE i = 1 -> <<HttpsA>>
      [] i = 2 -> <<HttpsB, HttpC>>
      [] i = 3 -> <<HttpC>>
      [] OTHER -> <<HttpsB>>

EntryLists == ListsUpTo({Com, Uk, CoUk}, MaxEntries)

MatchRegistries ==
    {[version |-> SupportedVersion,
      services |-> [i \in 1..Len(es) |-> <<es[i], ServiceURLs(i)>>]] :
        es \in UNION {[1..n -> EntryLists] : n \in 0..MaxServices}}

MatchDomains ==
    {<<"example", "co", "uk">>, <<"example", "com">>, <<"uk">>,
     <<"co", "uk", "example">>, <<"example", "COM">>}

MatchInit ==
    /\ Host = NoHost
    /\ Bootstrap = RDAPBootstrap
    /\ kind = "dns"
    /\ identifier \in MatchDomains
    /\ pc = "start"
    /\ boot = NoBoot
    /\ doc = EmptyDocument
    /\ r \in MatchRegistries
    /\ matched = <<>>
    /\ uris = <<>>
    /\ idx = 0
    /\ requests = <<>>
    /\ last = NoAttempt
    /\ err = Pending
    /\ object = NoObject
    /\ hq = NoQuery

\* uris, err = r.MatchDomain(identifier)
MatchStep ==
    /\ pc = "start"
    /\ LET m == Match(r, kind, identifier)
       IN  /\ matched' = m.uris
           /\ err' = m.err
    /\ pc' = "matched"
    /\ UNCHANGED <<hq, Host, Bootstrap, kind, identifier, boot, doc, r, uris, idx,
                   requests, last, object>>

MatchNext == MatchStep

MatchSpec == MatchInit /\ [][MatchNext]_vars

----------------------------------------------------------------------------
(* the matcher of IP networks on its own *)

\* the lower half, its lower quarter, the upper half
BlockUniverse ==
    {Network(0, 1), Network(0, 2), Network(Pow2(AddrBits - 1), 1)}

BlockLists == ListsUpTo(BlockUniverse, MaxEntries)

IPRegistries ==
    {[version |-> SupportedVersion,
      services |-> [i \in 1..Len(es) |-> <<es[i], ServiceURLs(i)>>]] :
        es \in UNION {[1..n -> BlockLists] : n \in 0..MaxServices}}

\* everything, the halves, two quarters, the first, a middle and the last address
QueryNetworks ==
    {Network(0, 0), Network(0, 1), Network(Pow2(AddrBits - 1), 1),
     Network(0, 2), Network(Pow2(AddrBits - 2), 2),
     Network(0, AddrBits), Network(Pow2(AddrBits - 2) + 1, AddrBits),
     Network(Pow2(AddrBits) - 1, AddrBits)}

IPMatchInit ==
    /\ Host = NoHost
    /\ Bootstrap = RDAPBootstrap
    /\ kind \in {"ipv4", "ipv6"}
    /\ identifier \in QueryNetworks
    /\ pc = "start"
    /\ boot = NoBoot
    /\ doc = EmptyDocument
    /\ r \in IPRegistries
    /\ matched = <<>>
    /\ uris = <<>>
    /\ idx = 0
    /\ requests = <<>>
    /\ last = NoAttempt
    /\ err = Pending
    /\ object = NoObject
    /\ hq = NoQuery

IPMatchSpec == IPMatchInit /\ [][MatchNext]_vars

----------------------------------------------------------------------------
(* Handler.Query and its five handlers *)

\* the order in which Query tries the handlers
Handlers == <<"ASN", "IP", "IPNetwork", "Domain", "Entity">>

\* what a handler returns when its input is not of its kind
Rejected ==
    [ok |-> FALSE, err |-> "nil", calls |-> <<>>, passed |-> FALSE, wrote |-> FALSE]

\* the calls a handler makes once its input is of its kind, and what it
\* returns: the bootstrap lookup when there is a bootstrap client and the
\* handler uses it, the RDAP query of the client, the text written out
Served(name, lookup, mayBeEmpty) ==
    LET bootCall == IF lookup /\ hq.bootstrap
                    THEN <<[by |-> name, what |-> "bootstrap"]>>
                    ELSE <<>>
        allCalls == Append(bootCall, [by |-> name, what |-> "rdap"])
        result(e, cs, w) ==
            [ok |-> TRUE, err |-> e, calls |-> cs, passed |-> TRUE, wrote |-> w]
    IN  {result("bootstrap", bootCall, FALSE) : x \in {y \in {1} : bootCall # <<>>}}
        \cup {result("client", allCalls, FALSE),
              result("output", allCalls, FALSE),
              result("nil", allCalls, TRUE)}
        \cup {result("nil", allCalls, FALSE) : x \in {y \in {1} : mayBeEmpty}}

AcceptsASN(s) == ParseUint(s)
AcceptsIP(s) == ParseIP(s)
AcceptsAnyNetwork(s) == TRUE
AcceptsIPNetwork(s) == ParseCIDR(s)
AcceptsDomain(s) == IsFQDN(s)

\* the loop of Query leaves at the first handler that fails or takes the input
StopsOnError(ok, e) == e # "nil"
Stops(ok, e) == e # "nil" \/ ok

\* one turn of the loop of Query: the handler returned res
Turn(name, res) ==
    /\ pc = "handlers"
    /\ hq.i <= Len(Handlers)
    /\ Handlers[hq.i] = name
    /\ hq' = [hq EXCEPT !.invoked = Append(@, name),
                        !.passed = IF res.passed THEN @ \cup {name} ELSE @,
                        !.calls = @ \o res.calls,
                        !.wrote = @ \/ res.wrote,
                        !.ok = res.ok,
                        !.err = res.err,
                        !.i = IF Stops(res.ok, res.err) THEN @ ELSE @ + 1]
    /\ pc' = IF Stops(res.ok, res.err) \/ hq.i = Len(Handlers)
             THEN "done"
             ELSE "handlers"
    /\ UNCHANGED <<Host, Bootstrap, kind, identifier, boot, doc, r, matched,
                   uris, idx, requests, last, err, object>>

ASN ==
    \E res \in IF AcceptsASN(hq.object)
               THEN Served("ASN", TRUE, FALSE)
               ELSE {Rejected} :
        Turn("ASN", res)

IP ==
    \E res \in IF AcceptsIP(hq.object)
               THEN Served("IP", TRUE, FALSE)
               ELSE {Rejected} :
        Turn("IP", res)

IPNetwork ==
    \E res \in IF AcceptsIPNetwork(hq.object)
               THEN Served("IPNetwork", TRUE, FALSE)
               ELSE {Rejected} :
        Turn("IPNetwork", res)

Domain ==
    \E res \in IF AcceptsDomain(hq.object)
               THEN Served("Domain", TRUE, TRUE)
               ELSE {Rejected} :
        Turn("Domain", res)

Entity ==
    /\ Handlers[hq.i] = "Entity"
    /\ \E res \in Served("Entity", FALSE, FALSE) : Turn("Entity", res)

HandlerInit ==
    /\ Host = NoHost
    /\ Bootstrap = RDAPBootstrap
    /\ kind = "dns"
    /\ identifier = <<>>
    /\ pc = "handlers"
    /\ boot = NoBoot
    /\ doc = EmptyDocument
    /\ r = EmptyRegistry
    /\ matched = <<>>
    /\ uris = <<>>
    /\ idx = 0
    /\ requests = <<>>
    /\ last = NoAttempt
    /\ err = Pending
    /\ object = NoObject
    /\ hq \in {[NoQuery EXCEPT !.object = s, !.bootstrap = b, !.i = 1] :
                 s \in Inputs, b \in BOOLEAN}

HandlerNext == ASN \/ IP \/ IPNetwork \/ Domain \/ Entity

HandlerSpec == HandlerInit /\ [][HandlerNext]_vars

----------------------------------------------------------------------------
(* the properties *)

IsBootstrapRequest(u) == u = BootstrapURI(Bootstrap, kind)
IsCandidateRequest(u) == ~IsBootstrapRequest(u)
Is2xx(st) == st \div 100 = 2
IsHttps(u) == SchemeOf(u) = "https"
NotHttps(u) == ~IsHttps(u)
CanBeSent(u) == ~NewRequestFails(u)

\* the candidates the loop has been through
Attempted == IF pc = "loop" THEN idx - 1 ELSE IF last.tried THEN idx ELSE 0

\* the outcomes the fetcher's contract names that this client has no error for
NotFoundErr == Error("not found", <<>>, 0)
ProtocolErr(code) == Error("protocol", <<>>, code)
UnexpectedErr(st) == Error("unexpected response", <<>>, st)
IncompatibleErr(v) ==
    Error("incompatible bootstrap specification version", <<v>>, 0)

\* the classification of one exchange, in its order of precedence
Classified(resp) ==
    IF resp.io THEN TransportErr
    ELSE IF resp.status = 404 THEN NotFoundErr
    ELSE IF ~Is2xx(resp.status) /\ resp.rdap
    THEN IF resp.body.json THEN ProtocolErr(resp.status) ELSE DecodeErr
    ELSE IF ~(Is2xx(resp.status) /\ resp.rdap) THEN UnexpectedErr(resp.status)
    ELSE Nil

\* C1: the candidates are contacted in the order of the sorted list, each once;
\* a candidate that ends in a transport failure or a 404 makes the loop go on
\* to the next one; the first candidate that succeeds ends the query with its
\* payload and no error, and no candidate after it is contacted.
C1_InOrderFirstSuccessWins ==
    /\ SelectSeq(requests, IsCandidateRequest)
         = SelectSeq([i \in 1..Attempted |-> QueryURI(uris[i], kind, identifier)],
                     CanBeSent)
    /\ (last.tried /\ last.sent /\ (last.resp.io \/ last.resp.status = 404))
         => \/ pc = "loop" /\ uris[idx - 1] = last.uri
            \/ pc = "done" /\ err # Nil /\ idx = Len(uris)
    /\ (last.tried /\ last.sent /\ Classified(last.resp) = Nil /\ last.resp.body.json)
         => /\ pc = "done"
            /\ err = Nil
            /\ object = [from |-> last.uri, value |-> last.resp.body.value]
            /\ idx = Attempted

\* C2: when every candidate failed, query returns the error of the last
\* candidate attempted, unchanged.
C2_LastErrorReturned ==
    (pc = "done" /\ last.tried /\ last.err # Nil) => err = last.err

\* C3: a non-2xx answer with the RDAP media type and a well-formed error body
\* ends the query with a protocol error carrying the server's code, and no
\* later candidate is contacted.
C3_ProtocolErrorTerminal ==
    (/\ last.tried
     /\ last.sent
     /\ ~last.resp.io
     /\ last.resp.status # 404
     /\ ~Is2xx(last.resp.status)
     /\ last.resp.rdap
     /\ last.resp.body.json)
        => pc = "done" /\ err = ProtocolErr(last.resp.status) /\ idx = Attempted

\* C4: without an override, a decoded bootstrap document whose version is not
\* the supported one fails the query with the incompatible-version error,
\* before the matcher runs and before any candidate is contacted.
C4_VersionChecked ==
    (/\ boot.tried
     /\ boot.sent
     /\ ~boot.io
     /\ Is2xx(boot.status)
     /\ boot.rdap
     /\ boot.json
     /\ boot.version # SupportedVersion)
        => /\ pc = "done"
           /\ err = IncompatibleErr(boot.version)
           /\ ~boot.matcherRan
           /\ ~last.tried
           /\ SelectSeq(requests, IsCandidateRequest) = <<>>

\* C5: with an override there is no bootstrap fetch, no matching, and the only
\* request is the one to override/segment/identifier; without an override one
\* bootstrap request, and only one, precedes any candidate request.
C5_OverrideBypassesBootstrap ==
    /\ Host # NoHost =>
        /\ ~boot.tried
        /\ ~boot.matcherRan
        /\ Len(requests) <= 1
        /\ \A i \in 1..Len(requests) : requests[i] = QueryURI(Host, kind, identifier)
        /\ (pc = "done" /\ CanBeSent(QueryURI(Host, kind, identifier)))
              => Len(requests) = 1
    /\ Host = NoHost =>
        /\ pc # "start" => boot.tried
        /\ (pc = "loop" \/ last.tried) =>
              /\ boot.sent
              /\ Len(requests) >= 1
              /\ IsBootstrapRequest(requests[1])
              /\ \A i \in 2..Len(requests) : IsCandidateRequest(requests[i])

C5_Witness ==
    /\ Host # NoHost
    /\ pc = "done"
    /\ err = Nil
    /\ requests = <<QueryURI(Host, kind, identifier)>>

\* C6: a bootstrap fetch that is anything but a 2xx answer with the RDAP media
\* type and a JSON body ends the query with the error of that fetch; the
\* matcher does not run and no candidate is contacted.
C6_BootstrapMustSucceed ==
    (/\ boot.tried
     /\ ~(boot.sent /\ ~boot.io /\ Is2xx(boot.status) /\ boot.rdap /\ boot.json))
        => /\ pc = "done"
           /\ err # Nil
           /\ err = boot.err
           /\ ~boot.matcherRan
           /\ ~last.tried
           /\ SelectSeq(requests, IsCandidateRequest) = <<>>

\* C7: the result of one fetch is the classification of its exchange: transport
\* failure; else 404 is not-found; else non-2xx with the RDAP media type is a
\* protocol error, or a decode error when the body is not JSON; else anything
\* but 2xx with the RDAP media type is an unexpected response; else success.
C7_Classification ==
    (last.tried /\ last.sent) =>
        IF Classified(last.resp) = Nil
        THEN last.err \in {Nil, DecodeErr}
        ELSE last.err = Classified(last.resp)

\* C8: the URL list of every loaded service is the stable partition of the list
\* served: the https URLs in their order, then the others in their order.
C8_StablePartition ==
    pc # "start" =>
        \A i \in 1..Len(doc.services) :
            URIs(r.services[i])
              = SelectSeq(doc.services[i][2], IsHttps)
                \o SelectSeq(doc.services[i][2], NotHttps)

\* C9: sorting the matched list, which was sorted when the registry was
\* loaded, leaves it as it was.
C9_SortIdempotent ==
    pc = "loop" => uris = matched

Entry(h) == Entries(r.services[h[1]])[h[2]]

\* the entries of the registry that are a suffix of the lower-cased name
Hits ==
    {h \in {<<i, j>> \in (1..Len(r.services)) \X (1..MaxEntries + 1) :
                j <= Len(Entries(r.services[i]))} :
        Len(Entry(h)) > 0 /\ IsSuffix(Entry(h), Lower(identifier))}

\* C10: the matcher returns the URL list of the service holding the longest
\* entry that is a suffix of the name, the earliest such service when several
\* hold one of that length, and the no-match error when no entry is a suffix.
C10_LongestSuffixWins ==
    pc = "matched" =>
        IF Hits = {}
        THEN err = NoMatchesErr(identifier) /\ matched = <<>>
        ELSE \E h \in Hits :
                /\ \A g \in Hits : Len(Entry(g)) <= Len(Entry(h))
                /\ \A g \in Hits : Len(Entry(g)) = Len(Entry(h)) => h[1] <= g[1]
                /\ err = Nil
                /\ matched = URIs(r.services[h[1]])

C10_Witness ==
    /\ pc = "matched"
    /\ \E g, h \in Hits :
        /\ g[1] < h[1]
        /\ Len(Entry(g)) < Len(Entry(h))
        /\ matched = URIs(r.services[h[1]])
    /\ \E g, h \in Hits : g[1] # h[1] /\ Entry(g) = Entry(h)

\* the blocks of the registry that contain the network asked for
NetHits ==
    {h \in {<<i, j>> \in (1..Len(r.services)) \X (1..MaxEntries + 1) :
                j <= Len(Entries(r.services[i]))} :
        ContainsNet(Entry(h), identifier)}

\* every address of the network n is an address of the block c
SubsetNet(c, n) ==
    \A a \in 0..(Pow2(AddrBits) - 1) :
        MaskIP(a, n.bits) = n.ip => MaskIP(a, c.bits) = c.ip

\* C11: a block matches exactly when the network lies in it; the matcher
\* returns the URL list of a service holding the most specific block that
\* contains the network, and the no-match error when no block contains it.
C11_MostSpecificBlockWins ==
    pc = "matched" =>
        /\ \A i \in 1..Len(r.services) :
              \A j \in 1..Len(Entries(r.services[i])) :
                  (<<i, j>> \in NetHits) <=> SubsetNet(Entry(<<i, j>>), identifier)
        /\ IF NetHits = {}
           THEN err = NoMatchesErr(identifier) /\ matched = <<>>
           ELSE \E h \in NetHits :
                   /\ \A g \in NetHits : Entry(g).bits <= Entry(h).bits
                   /\ err = Nil
                   /\ matched = URIs(r.services[h[1]])

C11_Witness ==
    /\ pc = "matched"
    /\ \E g, h \in NetHits :
        /\ g[1] < h[1]
        /\ Entry(g).bits > Entry(h).bits
        /\ matched = URIs(r.services[g[1]])
    /\ \E i \in 1..Len(r.services) :
          \E j \in 1..Len(Entries(r.services[i])) : <<i, j>> \notin NetHits

\* C12 as stated: an input that is neither an IP address nor a CIDR network
\* ends Query with an error and without any network call.
C12_RejectedBeforeAnyCall ==
    (pc = "done" /\ hq.i > 0 /\ ~ParseIP(hq.object) /\ ~ParseCIDR(hq.object))
        => hq.err # "nil" /\ hq.calls = <<>>

\* C12: an input that does not parse as an IP address is turned down by the
\* handler IP, and one that does not parse as a CIDR network by the handler
\* IPNetwork, each without a bootstrap lookup or an RDAP query of its own; an
\* input that is neither is not refused by Query: one of ASN, Domain and Entity
\* takes it and makes the network calls for it.
C12_NotAnIPNeverReachesIPLookup ==
    /\ ~ParseIP(hq.object) =>
          /\ "IP" \notin hq.passed
          /\ \A k \in 1..Len(hq.calls) : hq.calls[k].by # "IP"
    /\ ~ParseCIDR(hq.object) =>
          /\ "IPNetwork" \notin hq.passed
          /\ \A k \in 1..Len(hq.calls) : hq.calls[k].by # "IPNetwork"
    /\ (pc = "done" /\ hq.i > 0 /\ ~ParseIP(hq.object) /\ ~ParseCIDR(hq.object))
          => /\ hq.ok
             /\ hq.passed # {}
             /\ hq.passed \subseteq {"ASN", "Domain", "Entity"}
             /\ hq.calls # <<>>

C12_Witness ==
    /\ pc = "done"
    /\ ~ParseIP(hq.object)
    /\ ~ParseCIDR(hq.object)
    /\ hq.invoked = <<"ASN", "IP", "IPNetwork", "Domain">>
    /\ hq.passed = {"Domain"}
    /\ hq.err = "nil"
    /\ hq.calls = <<[by |-> "Domain", what |-> "bootstrap"],
                    [by |-> "Domain", what |-> "rdap"]>>

\* C13: when the matcher finds no service, or a service without URLs, the
\* query ends with the no-matches error for the identifier, which is neither a
\* transport failure nor the error of a list of candidates that all failed,
\* and no candidate is contacted.
C13_NoMatchIsItsOwnOutcome ==
    (boot.matcherRan /\ matched = <<>>) =>
        /\ pc = "done"
        /\ err = NoMatchesErr(identifier)
        /\ err # TransportErr
        /\ err # DecodeErr
        /\ err # NoDataErr(identifier)
        /\ ~last.tried
        /\ SelectSeq(requests, IsCandidateRequest) = <<>>

C13_Witness ==
    /\ boot.matcherRan
    /\ matched = <<>>
    /\ pc = "done"
    /\ identifier = <<"example", "com">>
    /\ boot.version = SupportedVersion
    /\ err = NoMatchesErr(identifier)

\* C14: Query calls the handlers in the order ASN, IP, IPNetwork, Domain,
\* Entity and stops at the first that takes the input or fails; exactly one
\* handler gets past its parse step and it is the last one called; every
\* bootstrap lookup and RDAP query is made by that handler; Query never
\* returns false without an error.
C14_FirstClassifierWins ==
    /\ hq.invoked = SubSeq(Handlers, 1, Len(hq.invoked))
    /\ Cardinality(hq.passed) <= 1
    /\ \A k \in 1..Len(hq.calls) : hq.calls[k].by \in hq.passed
    /\ \A k \in 1..Len(hq.invoked) :
          hq.invoked[k] \in hq.passed => k = Len(hq.invoked) /\ pc = "done"
    /\ (pc = "done" /\ hq.i > 0) =>
          /\ hq.passed = {hq.invoked[Len(hq.invoked)]}
          /\ hq.calls # <<>>
          /\ hq.ok
          /\ ~(~hq.ok /\ hq.err = "nil")

C14_Witness ==
    /\ pc = "done"
    /\ hq.invoked = <<"ASN", "IP", "IPNetwork">>
    /\ hq.passed = {"IPNetwork"}
    /\ hq.err = "client"
    /\ hq.ok

====
